---- MODULE Spec2Model ----
(***************************************************************************)
(* Verification model of examples/video_call/src/main.rs: the audio ring   *)
(* mixer (AudioMixer), the shutdown coordination of the loops that main    *)
(* spawns, the microphone path (sample conversion, channel, mic pump) and  *)
(* the camera capture loop with its pacer.                                 *)
(*                                                                         *)
(* A volume is an f32 in the source.  It is modelled as an exact rational  *)
(* <<num, den>> with den > 0; the volumes drawn are dyadic (or clamped     *)
(* away before any arithmetic), so the f32 product sample * volume is      *)
(* exact and the rational arithmetic below is what the code computes.      *)
(***************************************************************************)
EXTENDS Integers, Sequences, FiniteSets, TLC

VARIABLES
    cfg,        \* the resolved configuration values main reads (lines 551-567)
    mixer,      \* the AudioMixer: [buffer, volume, max_buffer_size]
    refMixer,   \* a second AudioMixer instance, built from an in-range volume
    seqLog,     \* history: the raw samples pushed before the first pull
    seqPhase,   \* history: "clean" (no pull yet), "first" (just after the
                \*   first pull), "free" (afterwards; seqLog is dropped)
    lastPull,   \* history: the last get_samples call [count, out, refOut]
    lock,       \* who holds the mixer's Mutex: "free", "task" (push.task), "cb"
    push,       \* the add_audio_data call in progress: [pc, task, data (left),
                \*   n (history: the length of the last call's data),
                \*   pre, all (history: the buffer when the call took the
                \*   lock, and the call's whole data)]
    cb,         \* the playback callback: [pc, count, out, filled, pre]
    shutdown,   \* the shared AtomicBool
    ctrlc,      \* the Ctrl-C handler task: "waiting", "done"
    mainPc,     \* where main is
    streams,    \* the cpal streams main holds: [playback, mic] (playing or not)
    roomPc,     \* the room event task: "unspawned", "recv", "got", "done"
    roomEvt,    \* the event events.recv() has yielded ("none" otherwise)
    track,      \* per remote track, its receive loop: "none", "v_check",
                \*   "v_select", "a_next", "a_got", "done"
    audioIn,    \* per remote audio track, the frame stream.next() has yielded
    micPc,      \* the mic pump task: "unspawned", "recv", "chunk", "publish"
    micChan,    \* the mic channel: the queued blocks of i16 samples
    micBuf,     \* the mic pump's buf
    micIn,      \* history: the last capture callback [raw (the device's
                \*   block), out (the block it sent)]
    micLog,     \* history of the mic path: [made (raw samples the callbacks
                \*   were given), recv (all samples the pump received), sent
                \*   (the frames handed to capture_frame), err (the last
                \*   capture_frame failed)]
    audioFrames,\* the remote audio frames pushed into the mixer so far
    micAfter,   \* history: blocks the pump dequeued with the flag set (0..2)
    exitLog,    \* history of main's exit: [iters (main loop iterations that
                \*   ended with the flag set, 0..2), closes (room.close()
                \*   calls, 0..2)]
    now,        \* the clock (Instant::now()), in clock units
    ticker,     \* the capture loop's interval: the instant of its next tick
    lastTick,   \* history: the instant the last tick was delivered
    prevTick,   \* history: the instant the tick before it was delivered (-1: none)
    capStart,   \* `start`
    lastStats,  \* `last_stats`
    frameCount, \* `frame_count`
    frameTs,    \* frame.timestamp_us
    capIter,    \* the capture loop's iteration since the last tick: [res
                \*   (camera.frame(): "none", "ok", "err"), len (of the buffer),
                \*   path (conversion invoked: "none", "raw", "mjpeg"), ret]
    sink        \* history: the frames handed to source.capture_frame: [count,
                \*   last, prev (timestamps, -1: none), dropped (a frame was
                \*   dropped since the last one), gap (.. between prev and last)]

seqVars == <<refMixer, seqLog, seqPhase, lastPull>>
lockVars == <<lock, push, cb>>
capVars == <<now, ticker, lastTick, prevTick, capStart, lastStats, frameCount,
             frameTs, capIter, sink>>
pipeVars == <<shutdown, ctrlc, mainPc, streams, roomPc, roomEvt, track, audioIn,
              micPc, micChan, micBuf, micIn, micLog, audioFrames, micAfter, exitLog, capVars>>
vars == <<cfg, mixer, seqVars, lockVars, pipeVars>>

----------------------------------------------------------------------------
(* Bounds of the model. *)

MaxRate == 3      \* sample rates (= mixer capacities) 0..MaxRate
MaxData == 2      \* samples carried by one add_audio_data call: 0..MaxData
MaxLog == 4       \* samples pushed before the first pull
NumAudioTasks == 2 \* remote audio tasks that push concurrently
MaxTracks == 1    \* remote tracks subscribed during one run
MaxFrames == 1    \* remote audio frames pushed during one run
MaxChan == 2      \* mic blocks queued in the mic channel at once
MaxMade == 4      \* raw samples the capture device delivers in one run

(* i16 range: the target of the `as i16` cast. *)
I16Max == 32767
I16Min == -32768

(* Input samples and configured volumes that are drawn. *)
Samples == {-3, 1000, 2000}
Volumes == {<<-1, 5>>, <<0, 1>>, <<1, 2>>, <<1, 1>>, <<3, 2>>}
SampleRates == 0..MaxRate
DataBlocks == UNION {[1..n -> Samples] : n \in 0..MaxData}
\* the blocks and volumes drawn where calls interleave (MixerSpec)
MixerBlocks == UNION {[1..n -> {1000, 2000}] : n \in 0..MaxData}
MixerVolumes == {<<1, 2>>, <<3, 2>>}

\* main's loop has not run and room.close() has not been called
NoExit == [iters |-> 0, closes |-> 0]

\* nothing captured, received or handed over yet
NoMicLog == [made |-> 0, recv |-> <<>>, sent |-> <<>>, err |-> FALSE]

Min(a, b) == IF a <= b THEN a ELSE b
Abs(x) == IF x < 0 THEN -x ELSE x
Rep(x, n) == [i \in 1..n |-> x]
LastN(s, n) == SubSeq(s, Len(s) - n + 1, Len(s))

----------------------------------------------------------------------------
(* AudioMixer *)

\* f32::clamp(0.0, 1.0) on a rational <<num, den>>, den > 0
Clamp01(v) ==
    IF v[1] < 0 THEN <<0, 1>>
    ELSE IF v[1] > v[2] THEN <<1, 1>>
    ELSE v

NewUnclamped(sample_rate, volume) ==
    [buffer |-> <<>>, volume |-> volume, max_buffer_size |-> sample_rate]

\* AudioMixer::new
AudioMixerNew(sample_rate, volume) ==
    [buffer |-> <<>>, volume |-> Clamp01(volume), max_buffer_size |-> sample_rate]

\* integer part of a / b (b > 0), rounding toward zero: what `as i16` does
\* to the fractional part of an f32
TruncDiv(a, b) == IF a >= 0 THEN a \div b ELSE -((-a) \div b)

\* `as i16` saturates an out-of-range f32
SatI16(x) == IF x > I16Max THEN I16Max ELSE IF x < I16Min THEN I16Min ELSE x

ScaleFloor(sample, volume) == SatI16((sample * volume[1]) \div volume[2])

\* (sample as f32 * self.volume) as i16
ScaleSample(sample, volume) == SatI16(TruncDiv(sample * volume[1], volume[2]))

\* buffer.push_back(scaled)
PushBack(buffer, scaled) == Append(buffer, scaled)

EvictOffByOne(buffer, max) ==
    IF Len(buffer) > max + 1 THEN Tail(buffer) ELSE buffer

EvictNewest(buffer, max) ==
    IF Len(buffer) > max THEN SubSeq(buffer, 1, Len(buffer) - 1) ELSE buffer

\* if buffer.len() > self.max_buffer_size { buffer.pop_front(); }
EvictIfOver(buffer, max) ==
    IF Len(buffer) > max THEN Tail(buffer) ELSE buffer

\* one iteration of add_audio_data's loop, after scaling
PushSample(buffer, scaled, max) == EvictIfOver(PushBack(buffer, scaled), max)

\* AudioMixer::add_audio_data, the whole call (the lock is held throughout)
RECURSIVE AddAudioData(_, _)
AddAudioData(m, data) ==
    IF data = <<>> THEN m
    ELSE AddAudioData(
            [m EXCEPT !.buffer =
                PushSample(m.buffer, ScaleSample(Head(data), m.volume),
                           m.max_buffer_size)],
            Tail(data))

PopBack(buffer) ==
    IF buffer = <<>> THEN [value |-> 0, rest |-> <<>>]
    ELSE [value |-> buffer[Len(buffer)], rest |-> SubSeq(buffer, 1, Len(buffer) - 1)]

\* buffer.pop_front().unwrap_or(0)
PopFront(buffer) ==
    IF buffer = <<>> THEN [value |-> 0, rest |-> <<>>]
    ELSE [value |-> Head(buffer), rest |-> Tail(buffer)]

\* AudioMixer::get_samples, the whole call: [mixer, out]
RECURSIVE GetSamplesLoop(_, _, _)
GetSamplesLoop(m, left, out) ==
    IF left = 0 THEN [mixer |-> m, out |-> out]
    ELSE LET p == PopFront(m.buffer)
         IN  GetSamplesLoop([m EXCEPT !.buffer = p.rest], left - 1,
                            Append(out, p.value))

GetSamples(m, count) == GetSamplesLoop(m, count, <<>>)

----------------------------------------------------------------------------
(* SeqSpec: the mixer's operations applied one call after the other, to    *)
(* the mixer built from the configured volume and to a second mixer built  *)
(* from the in-range volume it is claimed to behave as.                    *)

\* the in-range volume a configured volume is claimed to behave as
RefVolume(v) ==
    IF v[1] > v[2] THEN <<1, 1>> ELSE IF v[1] < 0 THEN <<0, 1>> ELSE v

NoPull == [count |-> 0, out |-> <<>>, refOut |-> <<>>]

LockIdle ==
    /\ lock = "free"
    /\ push = [pc |-> "idle", task |-> 0, data |-> <<>>, n |-> 0,
               pre |-> <<>>, all |-> <<>>]
    /\ cb = [pc |-> "idle", count |-> 0, out |-> <<>>, filled |-> 0, pre |-> <<>>]

Tracks == 1..MaxTracks

NoIter == [res |-> "none", len |-> 0, path |-> "none", ret |-> 0]
NoSink == [count |-> 0, last |-> -1, prev |-> -1, dropped |-> FALSE, gap |-> FALSE]

\* the capture loop before main has set the camera up
CapIdle ==
    /\ now = 0
    /\ ticker = 0
    /\ lastTick = 0
    /\ prevTick = -1
    /\ capStart = 0
    /\ lastStats = 0
    /\ frameCount = 0
    /\ frameTs = 0
    /\ capIter = NoIter
    /\ sink = NoSink

\* the pipeline before main has set anything up
PipeIdle ==
    /\ shutdown = FALSE
    /\ ctrlc = "waiting"
    /\ mainPc = "playback"
    /\ streams = [playback |-> FALSE, mic |-> FALSE]
    /\ roomPc = "unspawned"
    /\ roomEvt = "none"
    /\ track = [t \in Tracks |-> "none"]
    /\ audioIn = [t \in Tracks |-> <<>>]
    /\ micPc = "unspawned"
    /\ micChan = <<>>
    /\ micBuf = <<>>
    /\ micIn = [raw |-> <<>>, out |-> <<>>]
    /\ micLog = NoMicLog
    /\ audioFrames = 0
    /\ micAfter = 0
    /\ exitLog = NoExit
    /\ CapIdle

SeqInit ==
    /\ cfg \in [sample_rate : SampleRates, volume : Volumes]
    /\ LockIdle
    /\ PipeIdle
    /\ mixer = AudioMixerNew(cfg.sample_rate, cfg.volume)
    /\ refMixer = AudioMixerNew(cfg.sample_rate, RefVolume(cfg.volume))
    /\ seqLog = <<>>
    /\ seqPhase = "clean"
    /\ lastPull = NoPull

SeqPush(data) ==
    /\ seqPhase = "clean" => Len(seqLog) + Len(data) <= MaxLog
    /\ mixer' = AddAudioData(mixer, data)
    /\ refMixer' = AddAudioData(refMixer, data)
    /\ seqLog' = IF seqPhase = "clean" THEN seqLog \o data ELSE <<>>
    /\ seqPhase' = IF seqPhase = "clean" THEN "clean" ELSE "free"
    /\ UNCHANGED <<cfg, lastPull, lockVars, pipeVars>>

SeqPull(count) ==
    LET r == GetSamples(mixer, count)
        rr == GetSamples(refMixer, count)
    IN  /\ mixer' = r.mixer
        /\ refMixer' = rr.mixer
        /\ lastPull' = [count |-> count, out |-> r.out, refOut |-> rr.out]
        /\ seqLog' = IF seqPhase = "clean" THEN seqLog ELSE <<>>
        /\ seqPhase' = IF seqPhase = "clean" THEN "first" ELSE "free"
        /\ UNCHANGED <<cfg, lockVars, pipeVars>>

SeqNext ==
    \/ \E data \in DataBlocks : SeqPush(data)
    \/ \E count \in 0..(MaxRate + 1) : SeqPull(count)

SeqSpec == SeqInit /\ [][SeqNext]_vars

----------------------------------------------------------------------------
(* Properties of the mixer's operations, one call after the other (SeqSpec) *)


\* C3: starting from the empty mixer of capacity C, once C + k samples
\* (k >= 0) have been pushed, in one call or several, with no pull in
\* between, the buffer is exactly the C most recently pushed samples, scaled,
\* oldest first.
C3_DropOldest ==
    (seqPhase = "clean" /\ Len(seqLog) >= mixer.max_buffer_size)
        => mixer.buffer =
             [i \in 1..mixer.max_buffer_size |->
                ScaleSample(LastN(seqLog, mixer.max_buffer_size)[i],
                            mixer.volume)]

\* more samples pushed than the capacity, and the survivors differ, so that
\* their order shows
C3_Witness ==
    /\ seqPhase = "clean"
    /\ mixer.max_buffer_size >= 2
    /\ Len(seqLog) > mixer.max_buffer_size
    /\ seqLog[1] # seqLog[Len(seqLog)]
    /\ mixer.buffer[1] # mixer.buffer[2]

\* C4: each stored sample is the input sample times the volume, truncated
\* toward zero, and scaling comes before eviction: into an empty mixer of
\* capacity C with volume 0.5, C samples of value 1000 and then k <= C samples
\* of value 2000 make a following get_samples(C) return C - k entries 500
\* followed by k entries 1000 (the source's scenario has C = 48000, k = 100).
C4_ScaleThenEvict ==
    /\ (/\ seqPhase = "first"
        /\ cfg.volume = <<1, 2>>
        /\ lastPull.count = cfg.sample_rate
        /\ \E k \in 0..cfg.sample_rate :
              seqLog = Rep(1000, cfg.sample_rate) \o Rep(2000, k))
       => \E k \in 0..cfg.sample_rate :
              /\ Len(seqLog) = cfg.sample_rate + k
              /\ lastPull.out = Rep(500, cfg.sample_rate - k) \o Rep(1000, k)
    /\ (/\ seqPhase = "clean"
        /\ seqLog # <<>>
        /\ cfg.sample_rate >= 1
        /\ 0 <= cfg.volume[1] /\ cfg.volume[1] <= cfg.volume[2])
       => LET s == seqLog[Len(seqLog)]
              y == mixer.buffer[Len(mixer.buffer)]
          IN  /\ s * y >= 0
              /\ Abs(y) * cfg.volume[2] <= Abs(s) * cfg.volume[1]
              /\ Abs(s) * cfg.volume[1] < (Abs(y) + 1) * cfg.volume[2]

\* the scenario with an eviction that shows: both values are returned
C4_Witness ==
    /\ seqPhase = "first"
    /\ cfg.volume = <<1, 2>>
    /\ cfg.sample_rate >= 2
    /\ lastPull.count = cfg.sample_rate
    /\ seqLog = Rep(1000, cfg.sample_rate) \o Rep(2000, 1)
    /\ lastPull.out[1] = 500
    /\ lastPull.out[cfg.sample_rate] = 1000

\* C5: a mixer constructed with a volume above 1.0 returns, for every
\* sequence of pushes and pulls, the samples a mixer constructed with volume
\* 1.0 returns; one constructed with a volume below 0.0 returns those of a
\* mixer constructed with volume 0.0.
C5_VolumeClamp ==
    /\ lastPull.out = lastPull.refOut
    /\ mixer.buffer = refMixer.buffer

\* a pull that returned two buffered samples, unscaled, from a mixer
\* configured with volume 1.5
C5_Witness ==
    /\ cfg.volume = <<3, 2>>
    /\ lastPull.count >= 2
    /\ lastPull.out[1] = 2000
    /\ lastPull.out[2] = -3

----------------------------------------------------------------------------
(* MixerSpec: the remote audio tasks (add_audio_data) and the playback     *)
(* callback (get_samples) running concurrently on one mixer, each call     *)
(* stepping through its loop while it holds the Mutex.                     *)

AudioTasks == 1..NumAudioTasks
Counts == 0..(MaxRate + 1)

SeqIdle ==
    /\ refMixer = AudioMixerNew(cfg.sample_rate, RefVolume(cfg.volume))
    /\ seqLog = <<>>
    /\ seqPhase = "free"
    /\ lastPull = NoPull

MixerInit ==
    /\ cfg \in [sample_rate : SampleRates, volume : MixerVolumes]
    /\ mixer = AudioMixerNew(cfg.sample_rate, cfg.volume)
    /\ SeqIdle
    /\ LockIdle
    /\ PipeIdle

\* add_audio_data: self.buffer.lock().unwrap()
AddLock(t, data) ==
    /\ lock = "free"
    /\ lock' = "task"
    /\ push' = [pc |-> "push", task |-> t, data |-> data, n |-> Len(data),
                pre |-> mixer.buffer, all |-> data]
    /\ UNCHANGED <<cfg, mixer, seqVars, cb, pipeVars>>

\* add_audio_data: scale the next sample and push_back
AddPush(t) ==
    /\ lock = "task" /\ push.task = t
    /\ push.pc = "push"
    /\ push.data # <<>>
    /\ mixer' = [mixer EXCEPT !.buffer =
                    PushBack(@, ScaleSample(Head(push.data), mixer.volume))]
    /\ push' = [push EXCEPT !.pc = "evict", !.data = Tail(@)]
    /\ UNCHANGED <<cfg, seqVars, lock, cb, pipeVars>>

\* add_audio_data: the length check and pop_front that follow the push_back
AddEvict(t) ==
    /\ lock = "task" /\ push.task = t
    /\ push.pc = "evict"
    /\ mixer' = [mixer EXCEPT !.buffer = EvictIfOver(@, mixer.max_buffer_size)]
    /\ push' = [push EXCEPT !.pc = "push"]
    /\ UNCHANGED <<cfg, seqVars, lock, cb, pipeVars>>

\* add_audio_data returns: the guard is dropped
AddUnlock(t) ==
    /\ lock = "task" /\ push.task = t
    /\ push.pc = "push"
    /\ push.data = <<>>
    /\ lock' = "free"
    /\ push' = [pc |-> "idle", task |-> 0, data |-> <<>>, n |-> push.n,
                pre |-> <<>>, all |-> <<>>]
    /\ UNCHANGED <<cfg, mixer, seqVars, cb, pipeVars>>

\* get_samples entering its loop without waiting for the Mutex
GetLockNoWait(count) ==
    /\ cb.pc = "idle"
    /\ lock' = "cb"
    /\ cb' = [pc |-> "locked", count |-> count, out |-> <<>>, filled |-> 0,
              pre |-> mixer.buffer]
    /\ UNCHANGED <<cfg, mixer, seqVars, push, pipeVars>>

\* the device invokes the output callback with a slice of `count` slots;
\* get_samples takes the lock
GetLock(count) ==
    /\ lock = "free"
    /\ cb.pc = "idle"
    /\ lock' = "cb"
    /\ cb' = [pc |-> "locked", count |-> count, out |-> <<>>, filled |-> 0,
              pre |-> mixer.buffer]
    /\ UNCHANGED <<cfg, mixer, seqVars, push, pipeVars>>

\* get_samples: out.push(buffer.pop_front().unwrap_or(0))
GetStep ==
    /\ lock = "cb"
    /\ Len(cb.out) < cb.count
    /\ LET p == PopFront(mixer.buffer)
       IN  /\ mixer' = [mixer EXCEPT !.buffer = p.rest]
           /\ cb' = [cb EXCEPT !.out = Append(@, p.value)]
    /\ UNCHANGED <<cfg, seqVars, lock, push, pipeVars>>

\* get_samples returns out: the guard is dropped
GetUnlock ==
    /\ lock = "cb"
    /\ Len(cb.out) >= cb.count
    /\ lock' = "free"
    /\ cb' = [cb EXCEPT !.pc = "filled"]
    /\ UNCHANGED <<cfg, mixer, seqVars, push, pipeVars>>

\* the callback's loop over data: slot i is written from samples[i]; an
\* index past the end of samples panics and leaves the rest unwritten
WriteData ==
    /\ cb.pc = "filled"
    /\ cb' = [pc |-> "idle", count |-> cb.count, out |-> <<>>,
              filled |-> Min(cb.count, Len(cb.out)), pre |-> <<>>]
    /\ UNCHANGED <<cfg, mixer, seqVars, lock, push, pipeVars>>

MixerNext ==
    \/ \E t \in AudioTasks, data \in MixerBlocks : AddLock(t, data)
    \/ \E t \in AudioTasks : AddPush(t)
    \/ \E t \in AudioTasks : AddEvict(t)
    \/ \E t \in AudioTasks : AddUnlock(t)
    \/ \E count \in Counts : GetLock(count)
    \/ GetStep
    \/ GetUnlock
    \/ WriteData

MixerSpec == MixerInit /\ [][MixerNext]_vars

\* C1: whenever the mixer lock is not held, the buffer holds at most
\* max_buffer_size (= sample_rate) samples, whatever the pushes and pulls,
\* also when one push carries more than max_buffer_size samples and when
\* nobody pulls.
C1_RingBound ==
    /\ mixer.max_buffer_size = cfg.sample_rate
    /\ lock = "free" => Len(mixer.buffer) <= mixer.max_buffer_size

\* a push of more samples than the capacity has completed on a full buffer
\* that nobody has pulled from
C1_Witness ==
    /\ lock = "free"
    /\ cb.pc = "idle" /\ cb.count = 0
    /\ push.pc = "idle" /\ push.n > mixer.max_buffer_size
    /\ mixer.max_buffer_size >= 1
    /\ Len(mixer.buffer) = mixer.max_buffer_size

Take(s, n) == SubSeq(s, 1, n)
Drop(s, n) == SubSeq(s, n + 1, Len(s))

\* C2: get_samples(n) returns exactly n samples: the min(n, len) oldest
\* buffered samples in FIFO order, then zeros; the buffer keeps exactly the
\* samples not returned, in order; and the playback callback writes all n
\* output slots.
C2_PullExact ==
    /\ lock = "cb" =>
         LET m == Min(Len(cb.out), Len(cb.pre))
         IN  /\ cb.out = Take(cb.pre, m) \o Rep(0, Len(cb.out) - m)
             /\ mixer.buffer = Drop(cb.pre, m)
             /\ Len(cb.out) <= cb.count
    /\ cb.pc = "filled" =>
         LET m == Min(cb.count, Len(cb.pre))
         IN  cb.out = Take(cb.pre, m) \o Rep(0, cb.count - m)
    /\ cb.pc = "idle" => cb.filled = cb.count

\* a pull of more samples than were buffered: two distinct samples returned
\* oldest first, then zero fill
C2_Witness ==
    /\ cb.pc = "filled"
    /\ Len(cb.pre) = 2
    /\ cb.pre[1] # cb.pre[2]
    /\ cb.count > 2
    /\ cb.out[1] = cb.pre[1] /\ cb.out[2] = cb.pre[2] /\ cb.out[3] = 0

\* the samples of one add_audio_data call as they are stored
Scaled(data, volume) == [i \in 1..Len(data) |-> ScaleSample(data[i], volume)]

\* C21: with several remote audio tasks pushing and the playback callback
\* pulling concurrently, every add_audio_data and get_samples call takes
\* effect as one atomic step: a call in progress excludes every other call;
\* after each sample of a push the buffer is what the whole-call operator
\* makes of the buffer the call found and the samples consumed so far; when
\* the push is complete its surviving samples are the newest of the call, one
\* contiguous run at the back of the buffer behind the older samples in their
\* old order; and a pull returns what the whole-call operator returns on the
\* buffer of the instant the pull took the lock.
C21_AtomicCalls ==
    /\ push.pc # "idle" => lock = "task" /\ cb.pc # "locked"
    /\ cb.pc = "locked" => lock = "cb" /\ push.pc = "idle"
    /\ push.pc = "push" =>
         LET done == Take(push.all, Len(push.all) - Len(push.data))
         IN  mixer.buffer =
                AddAudioData([mixer EXCEPT !.buffer = push.pre], done).buffer
    /\ (push.pc = "push" /\ push.data = <<>>) =>
         LET k == Min(Len(push.all), mixer.max_buffer_size)
             old == Len(mixer.buffer) - k
         IN  /\ old >= 0
             /\ LastN(mixer.buffer, k) = LastN(Scaled(push.all, mixer.volume), k)
             /\ Take(mixer.buffer, old) = LastN(push.pre, old)
    /\ cb.pc = "filled" =>
         cb.out = GetSamples([mixer EXCEPT !.buffer = cb.pre], cb.count).out

\* the second task's push of two samples is complete, on a buffer that held
\* another push's samples, while the callback still holds the result of a
\* pull that took samples out
C21_Witness ==
    /\ lock = "task" /\ push.task = 2
    /\ push.pc = "push" /\ push.data = <<>>
    /\ Len(push.all) = 2 /\ push.pre # <<>>
    /\ Len(mixer.buffer) > 2
    /\ cb.pc = "filled" /\ cb.pre # <<>> /\ cb.count >= 1

----------------------------------------------------------------------------
(* Audio device streams: the sample formats, the conversion of a captured  *)
(* sample to i16 and the channel selection of the capture callback.  An    *)
(* f32 sample is a rational <<num, den>> like a volume.                    *)

\* cpal's SampleFormat; "I8" stands for every format the match has no arm for
SampleFormats == {"F32", "I16", "U16", "I8"}

U16Max == 65535

\* std::mem::size_of::<T>()
SizeOf(fmt) ==
    CASE fmt = "F32" -> 4
      [] fmt = "I16" -> 2
      [] fmt = "U16" -> 2
      [] OTHER -> 1

\* f.clamp(-1.0, 1.0)
ClampUnit(f) ==
    IF f[1] < -f[2] THEN <<-1, 1>>
    ELSE IF f[1] > f[2] THEN <<1, 1>>
    ELSE f

\* an integer cast to i16 keeps the low 16 bits
WrapI16(x) == ((x - I16Min) % (U16Max + 1)) + I16Min

\* transmute_copy::<T, i16>: the 16 bits of the sample read as an i16
BitsAsI16(fmt, x) == IF fmt = "U16" THEN WrapI16(x) ELSE x

\* convert_to_i16: the arm is chosen by the size of T, so the i16 arm also
\* takes every u16 sample and the u16 arm below it is never reached
ConvertToI16(fmt, x) ==
    IF SizeOf(fmt) = SizeOf("F32")
    THEN SatI16(TruncDiv(ClampUnit(x)[1] * I16Max, ClampUnit(x)[2]))
    ELSE IF SizeOf(fmt) = SizeOf("I16")
    THEN BitsAsI16(fmt, x)
    ELSE IF SizeOf(fmt) = SizeOf("U16")
    THEN WrapI16(x - U16Max \div 2)
    ELSE 0

\* data.iter().skip(channel_index).step_by(num_channels)
\* the channel selection without skip(channel_index)
PickFirstChannel(data, channel_index, num_channels) ==
    LET n == (Len(data) + num_channels - 1) \div num_channels
    IN [j \in 1..n |-> data[1 + (j - 1) * num_channels]]

PickChannel(data, channel_index, num_channels) ==
    LET n == IF Len(data) <= channel_index THEN 0
             ELSE (Len(data) - channel_index - 1) \div num_channels + 1
    IN [j \in 1..n |-> data[channel_index + 1 + (j - 1) * num_channels]]

\* the capture callback's `converted`
Converted(fmt, data, channel_index, num_channels) ==
    LET picked == PickChannel(data, channel_index, num_channels)
    IN [j \in 1..Len(picked) |-> ConvertToI16(fmt, picked[j])]

StartAnyFormat(fmt, ok) == ok

\* start_audio_capture: Ok(stream) or Err; `ok` is what the device calls
\* (build_input_stream, play) return
StartAudioCapture(fmt, ok) ==
    IF fmt \in {"F32", "I16", "U16"} THEN ok ELSE FALSE

\* start_audio_playback: Ok(stream) or Err
StartAudioPlayback(fmt, ok) ==
    IF fmt \in {"F32", "I16", "U16"} THEN ok ELSE FALSE

----------------------------------------------------------------------------
(* Spec: main after Room::connect has returned, and the tasks and threads  *)
(* it spawns.  One action is one loop iteration or one wake-up of a task;  *)
(* a mixer call is one step (the Mutex makes it atomic, see MixerSpec).    *)
(* The per-frame work of the capture loop and the statistics printed by    *)
(* the receive loops leave the state modelled here unchanged.              *)

mixVars == <<cfg, seqVars, lockVars, capVars>>

RoomEvents == {"participant", "video", "audio", "disconnected"}
PipeFrames == {<<1000>>}
PipeMicBlocks == {<<7, 7>>}
PlaybackCounts == {1, 2}

\* let samples_per_10ms = (sample_rate / 100) as usize
SamplesPer10ms(sample_rate) == sample_rate \div 100

\* main has returned Err from a setup step (`?`), or from room.close()
SetupFailed == {"failed_playback", "failed_mic", "failed_camera"}
Failed == SetupFailed \cup {"failed_close"}

\* main has not returned: the runtime and the process are alive
Alive == mainPc \notin {"returned"} \cup Failed

Init ==
    /\ cfg \in [sample_rate : {100}, volume : {<<1, 2>>},
                no_camera : BOOLEAN, no_mic : BOOLEAN, no_playback : BOOLEAN,
                out_format : {"F32", "I8"}, in_format : {"I16", "I8"},
                num_channels : {1}, channel_index : {0}]
    /\ mixer = AudioMixerNew(cfg.sample_rate, Clamp01(cfg.volume))
    /\ SeqIdle
    /\ LockIdle
    /\ PipeIdle

\* the Ctrl-C task: ctrl_c().await returns, s.store(true, Release)
CtrlC ==
    /\ Alive
    /\ ctrlc = "waiting"
    /\ ctrlc' = "done"
    /\ shutdown' = TRUE
    /\ UNCHANGED <<mixVars, mixer, mainPc, streams, roomPc, roomEvt, track,
                   audioIn, micPc, micChan, micBuf, micIn, micLog, audioFrames, micAfter, exitLog>>

\* audio playback setup: an error returns from main with `?`
MainPlayback(ok) ==
    /\ mainPc = "playback"
    /\ IF cfg.no_playback
       THEN ok /\ mainPc' = "spawn_room" /\ UNCHANGED streams
       ELSE IF StartAudioPlayback(cfg.out_format, ok)
            THEN /\ mainPc' = "spawn_room"
                 /\ streams' = [streams EXCEPT !.playback = TRUE]
            ELSE mainPc' = "failed_playback" /\ UNCHANGED streams
    /\ UNCHANGED <<mixVars, mixer, shutdown, ctrlc, roomPc, roomEvt, track, audioIn, micPc,
                   micChan, micBuf, micIn, micLog, audioFrames, micAfter, exitLog>>

\* tokio::spawn of the room event task; its JoinHandle is dropped
MainSpawnRoom ==
    /\ mainPc = "spawn_room"
    /\ mainPc' = "mic"
    /\ roomPc' = "recv"
    /\ UNCHANGED <<mixVars, mixer, shutdown, ctrlc, streams, roomEvt, track,
                   audioIn, micPc, micChan, micBuf, micIn, micLog, audioFrames, micAfter, exitLog>>

\* microphone setup, publish_track, start_audio_capture, tokio::spawn of the
\* mic pump; an error returns from main with `?`
MainMic(ok) ==
    /\ mainPc = "mic"
    /\ IF cfg.no_mic
       THEN ok /\ mainPc' = "camera" /\ UNCHANGED <<streams, micPc>>
       ELSE IF StartAudioCapture(cfg.in_format, ok)
            THEN /\ mainPc' = "camera"
                 /\ streams' = [streams EXCEPT !.mic = TRUE]
                 /\ micPc' = "recv"
            ELSE mainPc' = "failed_mic" /\ UNCHANGED <<streams, micPc>>
    /\ UNCHANGED <<mixVars, mixer, shutdown, ctrlc, roomPc, roomEvt, track, audioIn, micChan,
                   micBuf, micIn, micLog, audioFrames, micAfter, exitLog>>

\* camera setup, publish_track and the ticker's first tick, or the branch to
\* the idle loop; an error returns from main with `?`
MainCamera(ok) ==
    /\ mainPc = "camera"
    /\ IF cfg.no_camera
       THEN ok /\ mainPc' = "idle_check"
       ELSE mainPc' = IF ok THEN "cap_check" ELSE "failed_camera"
    /\ UNCHANGED <<mixVars, mixer, shutdown, ctrlc, streams, roomPc, roomEvt, track, audioIn,
                   micPc, micChan, micBuf, micIn, micLog, audioFrames, micAfter, exitLog>>

\* the capture loop without its shutdown check
CapCheckNoBreak ==
    /\ mainPc = "cap_check"
    /\ mainPc' = "cap_tick"
    /\ UNCHANGED <<mixVars, mixer, shutdown, ctrlc, streams, roomPc, roomEvt, track, audioIn,
                   micPc, micChan, micBuf, micIn, micLog, audioFrames, micAfter, exitLog>>

\* capture loop: if shutdown.load(Acquire) { break }
CapCheck ==
    /\ mainPc = "cap_check"
    /\ mainPc' = IF shutdown THEN "closing" ELSE "cap_tick"
    /\ UNCHANGED <<mixVars, mixer, shutdown, ctrlc, streams, roomPc, roomEvt, track, audioIn,
                   micPc, micChan, micBuf, micIn, micLog, audioFrames, micAfter, exitLog>>

\* capture loop: ticker.tick().await, then the frame is acquired, converted
\* and published (or dropped), and the loop starts over
CapTick ==
    /\ mainPc = "cap_tick"
    /\ mainPc' = "cap_check"
    /\ exitLog' = [exitLog EXCEPT !.iters = IF shutdown THEN Min(@ + 1, 2) ELSE @]
    /\ UNCHANGED <<mixVars, mixer, shutdown, ctrlc, streams, roomPc, roomEvt, track, audioIn,
                   micPc, micChan, micBuf, micIn, micLog, audioFrames, micAfter>>

IdleCheckSwap ==
    /\ mainPc = "idle_check"
    /\ mainPc' = IF shutdown THEN "closing" ELSE "idle_sleep"
    /\ shutdown' = FALSE
    /\ UNCHANGED <<mixVars, mixer, ctrlc, streams, roomPc, roomEvt, track, audioIn,
                   micPc, micChan, micBuf, micIn, micLog, audioFrames, micAfter, exitLog>>

\* idle loop: if shutdown.load(Acquire) { break }
IdleCheck ==
    /\ mainPc = "idle_check"
    /\ mainPc' = IF shutdown THEN "closing" ELSE "idle_sleep"
    /\ UNCHANGED <<mixVars, mixer, shutdown, ctrlc, streams, roomPc, roomEvt, track, audioIn,
                   micPc, micChan, micBuf, micIn, micLog, audioFrames, micAfter, exitLog>>

\* idle loop: sleep(200 ms) is over
IdleWake ==
    /\ mainPc = "idle_sleep"
    /\ mainPc' = "idle_check"
    /\ exitLog' = [exitLog EXCEPT !.iters = IF shutdown THEN Min(@ + 1, 2) ELSE @]
    /\ UNCHANGED <<mixVars, mixer, shutdown, ctrlc, streams, roomPc, roomEvt, track, audioIn,
                   micPc, micChan, micBuf, micIn, micLog, audioFrames, micAfter>>

\* room.close().await? and the return from main: nothing is joined
MainClose(ok) ==
    /\ mainPc = "closing"
    /\ mainPc' = IF ok THEN "returned" ELSE "failed_close"
    /\ exitLog' = [exitLog EXCEPT !.closes = Min(@ + 1, 2)]
    /\ UNCHANGED <<mixVars, mixer, shutdown, ctrlc, streams, roomPc, roomEvt, track, audioIn,
                   micPc, micChan, micBuf, micIn, micLog, audioFrames, micAfter>>

FreeTracks == {t \in Tracks : track[t] = "none"}
NextTrack == CHOOSE t \in FreeTracks : \A u \in FreeTracks : t <= u

\* room event task: events.recv().await yields an event
RoomRecv(evt) ==
    /\ Alive
    /\ roomPc = "recv"
    /\ roomPc' = "got"
    /\ roomEvt' = evt
    /\ UNCHANGED <<mixVars, mixer, shutdown, ctrlc, mainPc, streams, track,
                   audioIn, micPc, micChan, micBuf, micIn, micLog, audioFrames, micAfter, exitLog>>

\* room event task: the flag is read, then the event is matched (a subscribed
\* track gets its receive loop spawned; the JoinHandle is dropped)
RoomHandle ==
    /\ Alive
    /\ roomPc = "got"
    /\ roomEvt' = "none"
    /\ IF shutdown \/ roomEvt = "disconnected"
       THEN roomPc' = "done" /\ UNCHANGED track
       ELSE /\ roomPc' = "recv"
            /\ track' = CASE roomEvt = "video" /\ FreeTracks # {} ->
                               [track EXCEPT ![NextTrack] = "v_check"]
                          [] roomEvt = "audio" /\ FreeTracks # {} ->
                               [track EXCEPT ![NextTrack] = "a_next"]
                          [] OTHER -> track
    /\ UNCHANGED <<mixVars, mixer, shutdown, ctrlc, mainPc, streams, audioIn,
                   micPc, micChan, micBuf, micIn, micLog, audioFrames, micAfter, exitLog>>

\* room event task: events.recv().await yields None
RoomClosed ==
    /\ Alive
    /\ roomPc = "recv"
    /\ roomPc' = "done"
    /\ UNCHANGED <<mixVars, mixer, shutdown, ctrlc, mainPc, streams, roomEvt,
                   track, audioIn, micPc, micChan, micBuf, micIn, micLog, audioFrames, micAfter, exitLog>>

\* video receive thread: if shut.load(Relaxed) { break }
VideoCheck(t) ==
    /\ Alive
    /\ track[t] = "v_check"
    /\ track' = [track EXCEPT ![t] = IF shutdown THEN "done" ELSE "v_select"]
    /\ UNCHANGED <<mixVars, mixer, shutdown, ctrlc, mainPc, streams, roomPc,
                   roomEvt, audioIn, micPc, micChan, micBuf, micIn, micLog, audioFrames, micAfter, exitLog>>

\* video receive thread: the select's sleep(1 s) branch completes
VideoTimeout(t) ==
    /\ Alive
    /\ track[t] = "v_select"
    /\ track' = [track EXCEPT ![t] = "v_check"]
    /\ UNCHANGED <<mixVars, mixer, shutdown, ctrlc, mainPc, streams, roomPc,
                   roomEvt, audioIn, micPc, micChan, micBuf, micIn, micLog, audioFrames, micAfter, exitLog>>

\* video receive thread: the select's stream.next() branch completes
VideoFrame(t) ==
    /\ Alive
    /\ track[t] = "v_select"
    /\ track' = [track EXCEPT ![t] = "v_check"]
    /\ UNCHANGED <<mixVars, mixer, shutdown, ctrlc, mainPc, streams, roomPc,
                   roomEvt, audioIn, micPc, micChan, micBuf, micIn, micLog, audioFrames, micAfter, exitLog>>

\* audio receive task: stream.next().await yields a frame
AudioNext(t, data) ==
    /\ Alive
    /\ track[t] = "a_next"
    /\ audioFrames < MaxFrames
    /\ track' = [track EXCEPT ![t] = "a_got"]
    /\ audioIn' = [audioIn EXCEPT ![t] = data]
    /\ audioFrames' = audioFrames + 1
    /\ UNCHANGED <<mixVars, mixer, shutdown, ctrlc, mainPc, streams, roomPc,
                   roomEvt, micPc, micChan, micBuf, micIn, micLog, micAfter, exitLog>>

\* audio receive task: the flag is read, then the frame goes to the mixer
AudioHandle(t) ==
    /\ Alive
    /\ track[t] = "a_got"
    /\ audioIn' = [audioIn EXCEPT ![t] = <<>>]
    /\ IF shutdown
       THEN /\ track' = [track EXCEPT ![t] = "done"]
            /\ UNCHANGED mixer
       ELSE /\ track' = [track EXCEPT ![t] = "a_next"]
            /\ mixer' = AddAudioData(mixer, audioIn[t])
    /\ UNCHANGED <<mixVars, shutdown, ctrlc, mainPc, streams, roomPc, roomEvt,
                   micPc, micChan, micBuf, micIn, micLog, audioFrames, micAfter, exitLog>>

\* audio receive task: stream.next().await yields None
AudioEnd(t) ==
    /\ Alive
    /\ track[t] = "a_next"
    /\ track' = [track EXCEPT ![t] = "done"]
    /\ UNCHANGED <<mixVars, mixer, shutdown, ctrlc, mainPc, streams, roomPc,
                   roomEvt, audioIn, micPc, micChan, micBuf, micIn, micLog, audioFrames, micAfter, exitLog>>

\* the playback device's callback: mixer.get_samples(data.len())
PlaybackCallback(count) ==
    /\ Alive
    /\ streams.playback
    /\ mixer' = GetSamples(mixer, count).mixer
    /\ UNCHANGED <<mixVars, pipeVars>>

\* the capture device's callback: the samples of the configured channel are
\* converted and sent, tx.send(converted)
MicCallback(raw) ==
    /\ Alive
    /\ streams.mic
    /\ Len(micChan) < MaxChan
    /\ micLog.made + Len(raw) <= MaxMade
    /\ micLog' = [micLog EXCEPT !.made = @ + Len(raw)]
    /\ LET converted == Converted(cfg.in_format, raw, cfg.channel_index,
                                  cfg.num_channels)
       IN /\ micChan' = Append(micChan, converted)
          /\ micIn' = [raw |-> raw, out |-> converted]
    /\ UNCHANGED <<mixVars, mixer, shutdown, ctrlc, mainPc, streams, roomPc, roomEvt,
                   track, audioIn, micPc, micBuf, audioFrames, micAfter, exitLog>>

\* mic pump: mic_rx.recv().await yields a block; buf.extend_from_slice
MicRecv ==
    /\ Alive
    /\ micPc = "recv"
    /\ micChan # <<>>
    /\ micBuf' = micBuf \o Head(micChan)
    /\ micChan' = Tail(micChan)
    /\ micPc' = "chunk"
    /\ micAfter' = IF shutdown THEN Min(micAfter + 1, 2) ELSE micAfter
    /\ micLog' = [micLog EXCEPT !.recv = @ \o Head(micChan)]
    /\ UNCHANGED <<mixVars, mixer, shutdown, ctrlc, mainPc, streams, roomPc, roomEvt,
                   track, audioIn, micIn, audioFrames, exitLog>>

\* a chunk copied from the front of buf without removing it
CopyChunk(buf, n) == [chunk |-> Take(buf, n), rest |-> buf]

\* buf.drain(..samples_per_10ms).collect()
DrainChunk(buf, n) == [chunk |-> Take(buf, n), rest |-> Drop(buf, n)]

\* the AudioFrame built around a chunk
AudioFrame(chunk, n) ==
    [data |-> chunk, num_channels |-> 1, samples_per_channel |-> n]

\* mic pump: while buf.len() >= samples_per_10ms { drain a chunk, build the
\* frame, call capture_frame }; at most MaxMade + 1 frames are followed
MicChunk ==
    /\ Alive
    /\ micPc = "chunk"
    /\ LET n == SamplesPer10ms(cfg.sample_rate)
           d == DrainChunk(micBuf, n)
       IN  IF Len(micBuf) >= n
           THEN /\ Len(micLog.sent) <= MaxMade
                /\ micBuf' = d.rest
                /\ micLog' = [micLog EXCEPT
                                !.sent = Append(@, AudioFrame(d.chunk, n))]
                /\ micPc' = "publish"
           ELSE /\ micPc' = "recv"
                /\ UNCHANGED <<micBuf, micLog>>
    /\ UNCHANGED <<mixVars, mixer, shutdown, ctrlc, mainPc, streams, roomPc, roomEvt,
                   track, audioIn, micChan, micIn, audioFrames, micAfter, exitLog>>

\* mic pump: capture_frame(&frame).await completes; an error is only logged
\* and the loop goes on with the next chunk
MicPublished(ok) ==
    /\ Alive
    /\ micPc = "publish"
    /\ micPc' = "chunk"
    /\ micLog' = [micLog EXCEPT !.err = ~ok]
    /\ UNCHANGED <<mixVars, mixer, shutdown, ctrlc, mainPc, streams, roomPc, roomEvt,
                   track, audioIn, micChan, micBuf, micIn, audioFrames, micAfter, exitLog>>

\* main's own steps up to the end of its loop
\* a receive loop's own steps (the others are deliveries from outside)
TrackStep(t) == VideoCheck(t) \/ VideoTimeout(t) \/ AudioHandle(t)

\* the mic pump's own steps
MicStep == MicRecv \/ MicChunk \/ \E ok \in BOOLEAN : MicPublished(ok)

MainStep ==
    \/ \E ok \in BOOLEAN : MainPlayback(ok)
    \/ MainSpawnRoom
    \/ \E ok \in BOOLEAN : MainMic(ok)
    \/ \E ok \in BOOLEAN : MainCamera(ok)
    \/ CapCheck
    \/ CapTick
    \/ IdleCheck
    \/ IdleWake

Next ==
    \/ CtrlC
    \/ MainStep
    \/ \E ok \in BOOLEAN : MainClose(ok)
    \/ \E evt \in RoomEvents : RoomRecv(evt)
    \/ RoomHandle
    \/ RoomClosed
    \/ \E t \in Tracks : VideoCheck(t)
    \/ \E t \in Tracks : VideoTimeout(t)
    \/ \E t \in Tracks : VideoFrame(t)
    \/ \E t \in Tracks, data \in PipeFrames : AudioNext(t, data)
    \/ \E t \in Tracks : AudioHandle(t)
    \/ \E t \in Tracks : AudioEnd(t)
    \/ \E count \in PlaybackCounts : PlaybackCallback(count)
    \/ \E raw \in PipeMicBlocks : MicCallback(raw)
    \/ MicRecv
    \/ MicChunk
    \/ \E ok \in BOOLEAN : MicPublished(ok)

Spec == Init /\ [][Next]_vars

\* The runtime runs every task that is ready and fires every timer; what the
\* environment does (Ctrl-C, room events, remote frames, mic blocks, the
\* completion of room.close()) is not guaranteed.
FairSpec ==
    /\ Init
    /\ [][Next]_vars
    /\ WF_vars(MainStep)
    /\ WF_vars(RoomHandle)
    /\ \A t \in Tracks : WF_vars(TrackStep(t))
    /\ WF_vars(MicStep)

----------------------------------------------------------------------------
(* Shutdown coordination (Spec, FairSpec) *)

RoomStopped == roomPc \in {"unspawned", "done"}
TrackStopped(t) == track[t] \in {"none", "done"}
TracksStopped == \A t \in Tracks : TrackStopped(t)
MicStopped == micPc \in {"unspawned", "done"}
MainLoopStopped == mainPc \in {"closing", "returned"} \cup Failed

\* C6: once the shutdown flag is set, every long-running loop (room event
\* loop, remote video threads, remote audio tasks, mic pump, capture loop,
\* idle loop) observes it and stops within its own polling period, also when
\* no further event, remote frame or mic block arrives: a loop that has not
\* stopped yet has a step of its own pending (its timer, or work it holds),
\* it never waits for a delivery from outside alone.
C6_ShutdownBound ==
    (Alive /\ shutdown) =>
        /\ ~MainLoopStopped => ENABLED MainStep
        /\ ~RoomStopped => ENABLED RoomHandle
        /\ \A t \in Tracks : ~TrackStopped(t) => ENABLED TrackStep(t)
        /\ ~MicStopped => ENABLED MicStep

\* the timeout a per-track receive loop has armed while it waits for data
TrackTimeout(t) == VideoTimeout(t)

\* C7: every per-remote-track receive loop, video or audio, waits for
\* inbound data only under a timeout: while it waits, the step that brings
\* it back to the shutdown check without any data is pending.
C7_ReceiveTimeout ==
    \A t \in Tracks :
        (Alive /\ track[t] \in {"v_select", "a_next"}) => ENABLED TrackTimeout(t)

\* C8: the mic pump reads the shutdown flag on its own cadence and stops
\* consuming: with the flag set it dequeues at most the one block it was
\* already waiting for.
C8_MicPumpStops == micAfter <= 1

\* C9: the shutdown flag starts false, never goes back to false, and is
\* written only by the Ctrl-C handler.
C9_FlagMonotonic ==
    /\ ~shutdown
    /\ [][/\ shutdown => shutdown'
          /\ shutdown' # shutdown => (ctrlc = "waiting" /\ ctrlc' = "done")]_vars

\* the flag is set and the loops have run on: main has left its loop and
\* returned, a video thread has seen the flag and stopped
C9_Witness ==
    /\ shutdown
    /\ ctrlc = "done"
    /\ mainPc = "returned"
    /\ \E t \in Tracks : track[t] = "done"
    /\ roomPc = "done"

\* C10: main returns (teardown complete) only after every spawned loop --
\* room event task, remote video threads, remote audio tasks, mic pump --
\* has terminated.
C10_JoinBeforeReturn ==
    mainPc = "returned" => (RoomStopped /\ TracksStopped /\ MicStopped)

----------------------------------------------------------------------------
(* Disconnection and setup errors (Spec, FairSpec) *)

\* C11: when the room delivers Disconnected, the pipeline initiates
\* shutdown: the shutdown flag becomes true, so that the capture loop, the
\* idle loop and the remote-track loops subsequently stop.
C11_DisconnectShutdown ==
    (Alive /\ roomPc = "got" /\ roomEvt = "disconnected")
        ~> (shutdown \/ MainLoopStopped)

\* C12: a fatal setup error of one capability (speaker, microphone, camera)
\* stops only that capability: a capability that was already started keeps
\* running, so main has not returned on the error while a playback stream
\* or a mic stream is playing.
C12_ErrorIsolation ==
    mainPc \in SetupFailed => (~streams.playback /\ ~streams.mic)

\* C14: when the device's sample encoding is not 32-bit float, signed 16-bit
\* or unsigned 16-bit, start_audio_capture (and start_audio_playback)
\* returns an error at stream-construction time: no stream is built or
\* played, no sample is converted and no block is ever sent on the mic
\* channel (nor pulled from the mixer by a playback callback).
C14_UnsupportedFormat ==
    /\ (~cfg.no_mic /\ cfg.in_format \notin {"F32", "I16", "U16"}) =>
          /\ ~streams.mic
          /\ micIn.out = <<>> /\ micChan = <<>> /\ micBuf = <<>>
          /\ micPc = "unspawned"
          /\ mainPc \in {"playback", "spawn_room", "mic", "failed_playback",
                          "failed_mic"}
    /\ (~cfg.no_playback /\ cfg.out_format \notin {"F32", "I16", "U16"}) =>
          /\ ~streams.playback
          /\ mainPc \in {"playback", "failed_playback"}

\* the setup of a device with an unsupported format has been attempted
C14_Witness ==
    \/ /\ ~cfg.no_mic /\ cfg.in_format = "I8"
       /\ mainPc = "failed_mic" /\ streams.playback
    \/ /\ ~cfg.no_playback /\ cfg.out_format = "I8"
       /\ mainPc = "failed_playback"

----------------------------------------------------------------------------
(* MicSpec: the microphone path once main has set it up (no camera, no     *)
(* playback): the capture callback, the channel and the mic pump, with     *)
(* every supported device format and channel layout.                       *)

MaxBlock == 2     \* samples in one block of the capture device

F32Samples == {<<-3, 2>>, <<-1, 2>>, <<1, 1>>}
I16Samples == {-3, 1000}
U16Samples == {0, (U16Max + 1) \div 2, U16Max}

RawSamples(fmt) ==
    CASE fmt = "F32" -> F32Samples
      [] fmt = "I16" -> I16Samples
      [] fmt = "U16" -> U16Samples
      [] OTHER -> {}

RawBlocks(fmt) == UNION {[1..n -> RawSamples(fmt)] : n \in 0..MaxBlock}

\* blocks of two interleaved stereo frames
StereoBlocks(fmt) == {<<a, b, b, a>> : a, b \in RawSamples(fmt)}

MicInit ==
    /\ cfg \in [sample_rate : {50, 100, 200}, volume : {<<1, 2>>},
                no_camera : {TRUE}, no_mic : {FALSE}, no_playback : {TRUE},
                out_format : {"F32"}, in_format : {"F32", "I16", "U16"},
                num_channels : {1, 2}, channel_index : {0, 1}]
    /\ mixer = AudioMixerNew(cfg.sample_rate, Clamp01(cfg.volume))
    /\ SeqIdle
    /\ LockIdle
    /\ shutdown = FALSE
    /\ ctrlc = "waiting"
    /\ mainPc = "idle_check"
    /\ streams = [playback |-> FALSE, mic |-> TRUE]
    /\ roomPc = "recv"
    /\ roomEvt = "none"
    /\ track = [t \in Tracks |-> "none"]
    /\ audioIn = [t \in Tracks |-> <<>>]
    /\ micPc = "recv"
    /\ micChan = <<>>
    /\ micBuf = <<>>
    /\ micIn = [raw |-> <<>>, out |-> <<>>]
    /\ micLog = NoMicLog
    /\ audioFrames = 0
    /\ micAfter = 0
    /\ exitLog = NoExit
    /\ CapIdle

MicNext ==
    \/ \E raw \in RawBlocks(cfg.in_format) \cup StereoBlocks(cfg.in_format) :
            MicCallback(raw)
    \/ MicRecv
    \/ MicChunk
    \/ \E ok \in BOOLEAN : MicPublished(ok)

MicSpec == MicInit /\ [][MicNext]_vars

\* C13: an unsigned 16-bit sample u is converted by re-centring around zero:
\* 0 maps to the most negative output, the midpoint to about 0, the maximum
\* to the most positive output, and the mapping preserves the order (no
\* wrap-around in the i16 result).
C13_U16Recentred ==
    cfg.in_format = "U16" =>
        LET u == PickChannel(micIn.raw, cfg.channel_index, cfg.num_channels)
            s == micIn.out
        IN /\ Len(s) = Len(u)
           /\ \A i \in 1..Len(u) :
                 /\ u[i] = 0 => s[i] = I16Min
                 /\ u[i] = (U16Max + 1) \div 2 => Abs(s[i]) <= 1
                 /\ u[i] = U16Max => s[i] = I16Max
                 /\ \A j \in 1..Len(u) : u[i] < u[j] => s[i] < s[j]

\* C22: for an interleaved input block of F frames with C channels (C >= 1)
\* and a channel index c < C, the microphone callback sends one block of
\* exactly F converted samples whose i-th element is the conversion of the
\* sample of channel c in frame i (source position i*C + c), in source order.
C22_ChannelPick ==
    LET C == cfg.num_channels
        c == cfg.channel_index
    IN  (c < C /\ Len(micIn.raw) % C = 0) =>
            LET F == Len(micIn.raw) \div C
            IN  /\ Len(micIn.out) = F
                /\ \A i \in 0..(F - 1) :
                      micIn.out[i + 1] =
                          ConvertToI16(cfg.in_format, micIn.raw[i * C + c + 1])

\* a block of two stereo frames whose second channel is selected: the two
\* samples sent are the differing second-channel samples, in source order
C22_Witness ==
    /\ cfg.num_channels = 2 /\ cfg.channel_index = 1
    /\ cfg.in_format = "I16"
    /\ Len(micIn.raw) = 4
    /\ micIn.raw[1] # micIn.raw[2]
    /\ micIn.raw[2] # micIn.raw[4]
    /\ micIn.out = <<micIn.raw[2], micIn.raw[4]>>
    /\ micChan # <<>> /\ micChan[Len(micChan)] = micIn.out

\* C23: every configuration value that reaches a core component has been
\* validated or clamped first: the channel index given to the sample
\* converter is smaller than the device's channel count, the sample rate
\* yields a 10 ms chunk size of at least one sample, the target fps is at
\* least 1 and the volume lies in [0, 1].  Stated for the values the running
\* microphone path and the mixer were given.
C23_ConfigValidated ==
    streams.mic =>
        /\ cfg.channel_index < cfg.num_channels
        /\ SamplesPer10ms(cfg.sample_rate) >= 1
        /\ 0 <= mixer.volume[1] /\ mixer.volume[1] <= mixer.volume[2]

\* the samples of a sequence of frames, one after the other
RECURSIVE FrameData(_)
FrameData(frames) ==
    IF frames = <<>> THEN <<>>
    ELSE Head(frames).data \o FrameData(Tail(frames))

\* C24: every audio chunk the chunker hands to the publish sink has exactly
\* sample_rate/100 samples and is mono; the chunks handed over so far, one
\* after the other, are a prefix of the microphone blocks received so far,
\* and what is missing is exactly the pending buffer (no sample lost,
\* duplicated or reordered; a chunk whose capture_frame call failed is not
\* sent again); when the pump goes back to waiting after a block, fewer
\* than sample_rate/100 samples remain pending.
C24_ChunkerExact ==
    [][LET n == SamplesPer10ms(cfg.sample_rate)
           handed == FrameData(micLog.sent')
       IN  /\ \A i \in 1..Len(micLog.sent') :
                 /\ Len(micLog.sent'[i].data) = n
                 /\ micLog.sent'[i].num_channels = 1
                 /\ micLog.sent'[i].samples_per_channel = n
           /\ Len(handed) <= Len(micLog.recv')
           /\ handed = Take(micLog.recv', Len(handed))
           /\ micLog.recv' = handed \o micBuf'
           /\ (micPc = "chunk" /\ micPc' = "recv") => Len(micBuf') < n]_vars

\* at 200 Hz a second chunk, different from the first, has been handed over
\* after the first one's capture_frame failed, and nothing stays pending
C24_Witness ==
    /\ cfg.sample_rate = 200
    /\ micLog.err
    /\ micPc = "publish"
    /\ Len(micLog.sent) = 2
    /\ micLog.sent[1].data # micLog.sent[2].data
    /\ Len(micLog.recv) = 4
    /\ Len(micBuf) = 0

\* C27: for every configured sample rate and every received microphone
\* block the chunker's inner loop terminates after finitely many chunks,
\* because every inner iteration takes at least one sample off the pending
\* buffer: no chunk is empty, and there are never more chunks than samples
\* received.
C27_ChunkerTerminates ==
    /\ \A i \in 1..Len(micLog.sent) : Len(micLog.sent[i].data) >= 1
    /\ Len(micLog.sent) <= Len(micLog.recv)

\* C20: the channel between the capture callback and the mic pump is
\* bounded: the number of blocks queued in it stays below a fixed capacity
\* however much faster the callback produces than the pump consumes.  The
\* channel has no capacity of its own; the only limit here is MaxChan, up to
\* which the queue is explored.
C20_ChannelBounded == Len(micChan) < MaxChan

----------------------------------------------------------------------------
(* CapSpec: the camera capture loop on a clock, once main has set the      *)
(* camera up.  The clock counts half seconds; it advances while main waits *)
(* for a tick and while camera.frame() and the conversion run, which take  *)
(* at least one clock unit per iteration.                                  *)

MaxTime == 12     \* the clock runs from 0 to MaxTime

UnitsPerSec == 2
MicrosPerUnit == 500000
StatsSecs == 5

Max(a, b) == IF a >= b THEN a ELSE b

\* Duration::from_secs_f64(1.0 / vid_fps as f64)
Period(fps) == UnitsPerSec \div fps

NextTickBurst(deadline, at, period) == deadline + period

\* the interval's next deadline once a tick is delivered at `at`: one period
\* after the deadline, or, with MissedTickBehavior::Skip and the deadline
\* missed, the next multiple of the period after `at` (the 5 ms of lateness
\* the interval tolerates are below one clock unit)
NextTick(deadline, at, period) ==
    IF at > deadline
    THEN at + period - ((at - deadline) % period)
    ELSE deadline + period

TimestampUnset(at, start) == 0

\* start.elapsed().as_micros() as i64
TimestampUs(at, start) == (at - start) * MicrosPerUnit

IsRawAtLeast(len, w, h) == len >= w * h * 3

\* src_bytes.len() == (w as usize * h as usize * 3)
IsRawRgb(len, w, h) == len = w * h * 3

WorkTimes == {1, 2, 5}
BufLens == {0, 3, 5, 6}
DecodeRets == {0, 1}

\* the pipeline's variables other than mainPc
restVars == <<shutdown, ctrlc, streams, roomPc, roomEvt, track, audioIn, micPc,
              micChan, micBuf, micIn, micLog, audioFrames, micAfter, exitLog>>

CapInit ==
    /\ cfg \in [sample_rate : {100}, volume : {<<1, 2>>}, fps : {1, 2},
                width : {1, 2}, height : {1}]
    /\ mixer = AudioMixerNew(cfg.sample_rate, Clamp01(cfg.volume))
    /\ SeqIdle
    /\ LockIdle
    /\ shutdown = FALSE
    /\ ctrlc = "waiting"
    /\ mainPc = "cap_check"
    /\ streams = [playback |-> FALSE, mic |-> FALSE]
    /\ roomPc = "recv"
    /\ roomEvt = "none"
    /\ track = [t \in Tracks |-> "none"]
    /\ audioIn = [t \in Tracks |-> <<>>]
    /\ micPc = "unspawned"
    /\ micChan = <<>>
    /\ micBuf = <<>>
    /\ micIn = [raw |-> <<>>, out |-> <<>>]
    /\ micLog = NoMicLog
    /\ audioFrames = 0
    /\ micAfter = 0
    /\ exitLog = NoExit
    /\ now = 0
    /\ ticker = Period(cfg.fps)
    /\ lastTick = 0
    /\ prevTick = -1
    /\ capStart = 0
    /\ lastStats = 0
    /\ frameCount = 0
    /\ frameTs = 0
    /\ capIter = NoIter
    /\ sink = NoSink

\* ticker.tick().await: delivered at the deadline, or at once when the
\* deadline has passed
CapTickWait ==
    /\ mainPc = "cap_tick"
    /\ LET at == Max(now, ticker)
       IN /\ at <= MaxTime
          /\ now' = at
          /\ ticker' = NextTick(ticker, at, Period(cfg.fps))
          /\ prevTick' = lastTick
          /\ lastTick' = at
    /\ capIter' = NoIter
    /\ mainPc' = "cap_frame"
    /\ UNCHANGED <<cfg, mixer, seqVars, lockVars, restVars, capStart, lastStats,
                   frameCount, frameTs, sink>>

\* camera.frame(): Err is logged and the loop continues; `d` is the time the
\* iteration's work takes
CapFrame(ok, len, d) ==
    /\ mainPc = "cap_frame"
    /\ now + d <= MaxTime
    /\ now' = now + d
    /\ IF ok
       THEN /\ capIter' = [capIter EXCEPT !.res = "ok", !.len = len]
            /\ mainPc' = "cap_convert"
            /\ UNCHANGED sink
       ELSE /\ len = 0
            /\ capIter' = [capIter EXCEPT !.res = "err"]
            /\ mainPc' = "cap_check"
            /\ sink' = [sink EXCEPT !.dropped = TRUE]
    /\ UNCHANGED <<cfg, mixer, seqVars, lockVars, restVars, ticker, lastTick,
                   prevTick, capStart, lastStats, frameCount, frameTs>>

CapConvertNoSkip(ret) ==
    /\ mainPc = "cap_convert"
    /\ capIter' = [capIter EXCEPT
                     !.path = IF IsRawRgb(capIter.len, cfg.width, cfg.height)
                              THEN "raw" ELSE "mjpeg",
                     !.ret = ret]
    /\ mainPc' = "cap_publish"
    /\ UNCHANGED <<cfg, mixer, seqVars, lockVars, restVars, now, ticker, lastTick,
                   prevTick, capStart, lastStats, frameCount, frameTs, sink>>

\* the conversion dispatch: rs_RGB24ToI420 (its status is discarded) or
\* rs_MJPGToI420 (a non-zero status skips the frame)
CapConvert(ret) ==
    /\ mainPc = "cap_convert"
    /\ IF IsRawRgb(capIter.len, cfg.width, cfg.height)
       THEN /\ capIter' = [capIter EXCEPT !.path = "raw", !.ret = ret]
            /\ mainPc' = "cap_publish"
            /\ UNCHANGED sink
       ELSE /\ capIter' = [capIter EXCEPT !.path = "mjpeg", !.ret = ret]
            /\ IF ret # 0
               THEN /\ mainPc' = "cap_check"
                    /\ sink' = [sink EXCEPT !.dropped = TRUE]
               ELSE /\ mainPc' = "cap_publish"
                    /\ UNCHANGED sink
    /\ UNCHANGED <<cfg, mixer, seqVars, lockVars, restVars, now, ticker, lastTick,
                   prevTick, capStart, lastStats, frameCount, frameTs>>

\* frame.timestamp_us = ..; source.capture_frame(&frame); frame_count += 1;
\* the statistics are printed and reset every 5 s
CapPublish ==
    /\ mainPc = "cap_publish"
    /\ frameTs' = TimestampUs(now, capStart)
    /\ sink' = [count |-> sink.count + 1, last |-> frameTs', prev |-> sink.last,
                dropped |-> FALSE, gap |-> sink.dropped]
    /\ IF now - lastStats >= StatsSecs * UnitsPerSec
       THEN frameCount' = 0 /\ lastStats' = now
       ELSE frameCount' = frameCount + 1 /\ UNCHANGED lastStats
    /\ mainPc' = "cap_check"
    /\ UNCHANGED <<cfg, mixer, seqVars, lockVars, restVars, now, ticker, lastTick,
                   prevTick, capStart, capIter>>

CapNext ==
    \/ CtrlC
    \/ CapCheck
    \/ CapTickWait
    \/ \E ok \in BOOLEAN, len \in BufLens, d \in WorkTimes : CapFrame(ok, len, d)
    \/ \E ret \in DecodeRets : CapConvert(ret)
    \/ CapPublish

CapSpec == CapInit /\ [][CapNext]_vars

\* C15: when one iteration of the capture loop takes 2.5 tick intervals, the
\* pacer delivers exactly one tick for that gap: the ticks that elapsed
\* while the loop was busy are discarded, not queued -- once a tick is
\* delivered the next one lies in the future, so no two ticks are delivered
\* at the same instant and the loop never runs back-to-back catch-up
\* iterations.
C15_TickSkip == prevTick < lastTick /\ lastTick < ticker

\* at one frame per second an iteration has taken 2.5 intervals: the tick
\* after it was delivered at once and the next one is half an interval away
C15_Witness ==
    /\ cfg.fps = 1
    /\ prevTick >= 0
    /\ lastTick = prevTick + 5
    /\ ticker = lastTick + 1
    /\ mainPc = "cap_frame"

\* C16: between any two consecutive accepted ticks of the capture loop at
\* least one full tick interval 1/fps has elapsed, also right after an
\* iteration that overran one or more intervals.
C16_TickSpacing == prevTick >= 0 => lastTick - prevTick >= Period(cfg.fps)

\* C17: for every captured buffer and frame size w x h, the raw RGB-to-I420
\* conversion is invoked if and only if the buffer holds w*h*3 bytes, the
\* MJPEG decode for every other length (0 included); exactly one of the two
\* is invoked per acquired frame.
C17_FormatDispatch ==
    /\ capIter.path = "raw" => capIter.res = "ok" /\ capIter.len = cfg.width * cfg.height * 3
    /\ capIter.path = "mjpeg" => capIter.res = "ok" /\ capIter.len # cfg.width * cfg.height * 3
    /\ (capIter.res = "ok" /\ mainPc # "cap_convert") => capIter.path # "none"

\* an empty buffer has gone to the MJPEG decode, which accepted it
C17_Witness ==
    /\ mainPc = "cap_publish"
    /\ capIter.path = "mjpeg"
    /\ capIter.len = 0
    /\ cfg.width = 2

\* the iteration since the last tick has hit a transient error
TickFailed ==
    \/ capIter.res = "err"
    \/ capIter.path = "mjpeg" /\ capIter.ret # 0

\* C18: a transient per-frame error of the capture loop (camera.frame()
\* returns an error, or the MJPEG decode a non-zero status) drops only that
\* frame: nothing is handed to the publish sink for that tick, the frame
\* counter and the frame timestamp stay as they are, the frame is not
\* retried within the tick, and the loop goes on to its next tick.
C18_TransientDrop ==
    [][TickFailed' =>
          /\ sink'.count = sink.count
          /\ frameCount' = frameCount
          /\ frameTs' = frameTs
          /\ mainPc' \in {"cap_check", "cap_tick", "closing"}
          /\ mainPc' = "closing" => shutdown]_vars

\* a frame has been published, a later decode has failed, and the loop is
\* waiting for its next tick
C18_Witness ==
    /\ capIter.path = "mjpeg" /\ capIter.ret # 0
    /\ mainPc = "cap_tick"
    /\ sink.count >= 1
    /\ sink.dropped

\* C19: across the successive frames handed to the video publish sink,
\* timestamp_us is strictly increasing, also across ticks whose frame was
\* dropped in between.
C19_TimestampIncreasing == sink.count >= 2 => sink.prev < sink.last

\* two frames have been handed over with a dropped frame between them
C19_Witness == sink.count >= 2 /\ sink.gap

\* C25: a video frame is handed to the publish sink only when the conversion
\* routine invoked for that tick reported success (status 0), on the raw RGB
\* path as well as on the compressed MJPEG path.
C25_PublishOnSuccess ==
    mainPc = "cap_publish" => capIter.ret = 0

\* C26: in a run without setup errors, once the shutdown flag is set the main
\* loop exits after at most one further iteration (the capture loop waits for
\* at most one more tick and acquires and publishes at most one more frame,
\* the idle loop finishes at most one more 200 ms sleep), room.close() is then
\* invoked exactly once, and room.close() is never invoked while the flag is
\* still false.
C26_ExitAfterFlag ==
    /\ exitLog.iters <= 1
    /\ (shutdown /\ exitLog.iters = 1) =>
            mainPc \in {"cap_check", "idle_check", "closing", "returned",
                        "failed_close"}
    /\ mainPc = "closing" => shutdown /\ exitLog.closes = 0
    /\ mainPc \in {"returned", "failed_close"} => exitLog.closes = 1
    /\ exitLog.closes >= 1 =>
            shutdown /\ mainPc \in {"returned", "failed_close"}

\* the flag was set during a capture loop iteration, the loop finished that
\* iteration and left, and main has returned from its one room.close()
C26_Witness ==
    /\ ~cfg.no_camera
    /\ shutdown
    /\ exitLog.iters = 1
    /\ exitLog.closes = 1
    /\ mainPc = "returned"

====
